---- MODULE Spec2Model ----
\* A model of ghidra_bridge/ghidra_bridge.py: the GhidraBridge session object,
\* the projection of the remote __main__ members into a caller's namespace
\* (get_flat_api / unload_flat_api), the InteractiveListener it registers with
\* the remote tool, and the with-block exit.
\*
\* Specifications: Spec (one session and its caller), SpecListener (two
\* sessions and their listeners), SpecTeardown (a session up to the release of
\* its transport handle, whose calls run line by line while the tool's events
\* arrive), SpecShared (two sessions on one scope),
\* SpecFailure (loads that fail), SpecRace (a construction or a load and an
\* unload that run line by line in two threads, with a third writer).  In the
\* other specifications each call runs to its end before the next one starts.
\*
\* Names are strings; Chars spells each one out, so that str.startswith is
\* computed on its characters and not looked up.  A dict is a function whose
\* DOMAIN is its key set; the tracking dict keeps its insertion order and is a
\* sequence of <<key, value>> pairs.
EXTENDS Integers, Sequences, FiniteSets, TLC

\* ---------------------------------------------------------------- bounds
\* Longest _bridge_attrs list the remote __main__ exposes.
MaxAttrs == 2
\* Values a name can be bound to are 1..NumValues (remote values and the
\* caller's own values are drawn from the same set).
NumValues == 2
\* How many times InteractiveListener.__del__ is invoked on one listener.
MaxDel == 2
\* How many events the remote tool sends to one listener.
MaxEvents == 2

\* ---------------------------------------------------------------- names
EXCLUDED_REMOTE_IMPORTS == <<"logging", "subprocess", "ghidra_bridge", "bridge", "GhidraBridgeServer">>

GHIDRA_BRIDGE_NAMESPACE_TRACK == "__ghidra_bridge_namespace_track__"

\* The prefix get_flat_api skips.
DUNDER == "__"

\* The characters of each name of the model, for str.startswith.
Chars(name) ==
    CASE name = "foo" -> <<"f", "o", "o">>
      [] name = "bar" -> <<"b", "a", "r">>
      [] name = "logging" -> <<"l", "o", "g", "g", "i", "n", "g">>
      [] name = "subprocess" -> <<"s", "u", "b", "p", "r", "o", "c", "e", "s", "s">>
      [] name = "ghidra_bridge" -> <<"g", "h", "i", "d", "r", "a", "_", "b", "r", "i", "d", "g", "e">>
      [] name = "bridge" -> <<"b", "r", "i", "d", "g", "e">>
      [] name = "GhidraBridgeServer" -> <<"G", "h", "i", "d", "r", "a", "B", "r", "i", "d", "g", "e", "S", "e", "r", "v", "e", "r">>
      [] name = "__ghidra_bridge_namespace_track__" -> <<"_", "_", "g", "h", "i", "d", "r", "a", "_", "b", "r", "i", "d", "g", "e", "_", "n", "a", "m", "e", "s", "p", "a", "c", "e", "_", "t", "r", "a", "c", "k", "_", "_">>
      [] name = "__" -> <<"_", "_">>
      [] OTHER -> <<>>

\* Members the remote __main__ may expose: two ordinary ones, an excluded one
\* and one named like the tracking key.  Ordinary members resolve to any
\* value; the others, which are never bound, resolve to 1.
Ordinary == {"foo", "bar"}
RemoteNames == Ordinary \cup {"logging", GHIDRA_BRIDGE_NAMESPACE_TRACK}
\* Names the caller assigns itself.
CallerNames == {"foo", "logging"}
\* A name of the caller's that no remote member has, and one that a member has.
OwnNames == {"x", "bar"}
Values == 1..NumValues
Sessions == {"s1", "s2"}

\* ---------------------------------------------------------------- python
\* str.startswith
StartsWith(attr, prefix) ==
    /\ Len(Chars(attr)) >= Len(Chars(prefix))
    /\ SubSeq(Chars(attr), 1, Len(Chars(prefix))) = Chars(prefix)

\* `x in list`
InList(a, list) == \E i \in 1..Len(list) : list[i] = a

\* dict(): the empty dict, and the empty tracking dict
EmptyDict == [k \in {} |-> 0]
EmptyTrack == <<>>

\* d[k] = v
DictSet(d, k, v) == [a \in (DOMAIN d) \cup {k} |-> IF a = k THEN v ELSE d[a]]

\* del d[k]
DictDel(d, k) == [a \in (DOMAIN d) \ {k} |-> d[a]]

\* track[k] = v on the insertion-ordered tracking dict: an existing key keeps
\* its place, a new key goes last.
TrackSet(track, k, v) ==
    IF \E i \in 1..Len(track) : track[i][1] = k
    THEN [i \in 1..Len(track) |-> IF track[i][1] = k THEN <<k, v>> ELSE track[i]]
    ELSE Append(track, <<k, v>>)

TrackKeys(track) == {track[i][1] : i \in 1..Len(track)}
TrackGet(track, k) == track[CHOOSE i \in 1..Len(track) : track[i][1] = k][2]

\* ---------------------------------------------------------------- remote
\* The remote __main__ as one remote_import("__main__") returns it: the member
\* list _bridge_attrs, as dir() lists the members of an object (each once, in
\* sorted order), and what getattr resolves each member to.
RECURSIVE SeqsUpTo(_, _)
SeqsUpTo(S, n) ==
    IF n = 0 THEN {<<>>}
    ELSE LET shorter == SeqsUpTo(S, n - 1)
         IN shorter \cup {Append(q, a) : q \in shorter, a \in S}

Range(q) == {q[i] : i \in 1..Len(q)}
\* RemoteNames in sorted order ("_" sorts before the lower-case letters).
MemberOrder == <<GHIDRA_BRIDGE_NAMESPACE_TRACK, "bar", "foo", "logging">>
Position(n) == CHOOSE i \in 1..Len(MemberOrder) : MemberOrder[i] = n
Sorted(q) == \A i \in 1..(Len(q) - 1) : Position(q[i]) < Position(q[i + 1])
AttrLists == {q \in SeqsUpTo(RemoteNames, MaxAttrs) : Sorted(q)}
MemberValues(q) == {f \in [Range(q) -> Values] : \A n \in Range(q) \ Ordinary : f[n] = 1}
RemoteMains == UNION {{[attrs |-> q, vals |-> f] : f \in MemberValues(q)} : q \in AttrLists}
NoRemote == [attrs |-> <<>>, vals |-> EmptyDict]
\* The remote __main__s with no member named like the tracking key.
PublicMains == {rm \in RemoteMains : GHIDRA_BRIDGE_NAMESPACE_TRACK \notin Range(rm.attrs)}

\* The member whose getattr raises in one get_flat_api call; NoName: none does.
NoName == ""
BadNames(rm) == {NoName} \cup (Range(rm.attrs) \cap Ordinary)

\* ---------------------------------------------------------------- state
VARIABLES
    namespace,              \* the caller's scope (locals()/globals()): a dict
    constructed,            \* per session: "none", "building" (inside __init__), "open", "failed" (__init__ raised) or "closed" (let go)
    interactive_mode,       \* self.interactive_mode
    interactive_listener,   \* self.interactive_listener: "None" or "obj"
    self_namespace,         \* self.namespace is the scope (TRUE) or None (FALSE)
    tool_listeners,         \* the remote tool's registered listeners
    add_calls,              \* remote addToolListener calls issued, per session
    remove_calls,           \* remote removeToolListener calls issued, per session
    removals,               \* of those, the calls that took a registered listener off the tool
    handle,                 \* self.bridge, the transport handle, per session: "none", "open" or "released"
    events,                 \* events the remote tool has sent to the session's listener
    late,                   \* per session: an event was sent after the transport handle was released
    propagated,             \* per session: an exception left processToolEvent
    upc,                    \* where an unload_flat_api that runs step by step is: "idle", "items" (line 109, items()), "next" (line 109, the for), "present" (line 110), "equal" (line 111), "delete" (line 112)
    ucall,                  \* the session that unload was called on, whether it was given the scope, and whether __exit__ called it
    uitems,                 \* the dict object whose items() that unload iterates, as it is now
    ui,                     \* the position of that iteration
    ukv,                    \* that unload's locals key, value
    ulive,                  \* that dict object is still the one the scope holds under the tracking key
    ulen,                   \* the size of that dict object when the iteration started
    load,                   \* the __init__ or get_flat_api that runs step by step: where it is and its locals
    lastOp,                 \* the operation that produced this state
    pre,                    \* what the names projected by a load into a scope of the caller's own bindings were bound to before
    phase,                  \* "none", "loaded" (such a load returned), "reversed" (and then an unload, nothing between), "dirty"
    projected,              \* bindings a load put in the scope that the caller has not touched since
    injected,               \* per session: the bindings of `projected` that the session's loads made
    partial,                \* the last load if it aborted: what it had bound (and the caller left alone), and whether an unload followed
    loads_run,              \* completed loads into the scope since the last unload (at most 2 counted)
    undone,                 \* loads_run as the unload that produced this state found it
    active,                 \* a load wrote into the scope and no unload completed since
    called,                 \* per session: a get_flat_api call got past remote_import
    unloaded                \* per session: the caller's own unload completed and no load followed

vars == <<namespace, constructed, interactive_mode, interactive_listener, self_namespace,
          tool_listeners, add_calls, remove_calls, removals, handle, events, late, propagated,
          upc, ucall, uitems, ui, ukv, ulive, ulen, load,
          lastOp, pre, phase, projected, injected, partial, loads_run, undone, active, called,
          unloaded>>

\* What only the remote tool's event path changes.
event_vars == <<events, late, propagated>>
\* What only an unload that runs step by step changes.
unload_vars == <<upc, ucall, uitems, ui, ukv, ulive, ulen>>

\* No unload runs step by step.
NoUnload == [s |-> "none", scoped |-> FALSE, ctx |-> "none"]
NoItem == <<"", 0>>
\* No construction or load runs step by step.  pc: "import" (line 51),
\* "listener" (lines 53-81), "keep" (line 82), "reset" (lines 84-86), "loop"
\* (lines 89-91), "bind" (line 92), "record" (line 94); ctx: "init" when
\* __init__ made the call; rm: remote_main; i: the position in _bridge_attrs.
NoLoad == [pc |-> "idle", s |-> "none", ctx |-> "none", scoped |-> FALSE,
           rm |-> NoRemote, i |-> 0]
\* No call is part-way: the calls that run to their end start here.
NoCallInFlight == upc = "idle" /\ load.pc = "idle"

\* No load has aborted since the last load that returned.
NoPartial == [bound |-> EmptyDict, phase |-> "none"]

Op(op, s, err, scoped, rm) == [op |-> op, s |-> s, err |-> err, scoped |-> scoped, rm |-> rm]

Init ==
    /\ namespace = EmptyDict
    /\ constructed = [s \in Sessions |-> "none"]
    /\ interactive_mode = [s \in Sessions |-> FALSE]
    /\ interactive_listener = [s \in Sessions |-> "None"]
    /\ self_namespace = [s \in Sessions |-> FALSE]
    /\ tool_listeners = {}
    /\ add_calls = [s \in Sessions |-> 0]
    /\ remove_calls = [s \in Sessions |-> 0]
    /\ removals = [s \in Sessions |-> 0]
    /\ handle = [s \in Sessions |-> "none"]
    /\ events = [s \in Sessions |-> 0]
    /\ late = [s \in Sessions |-> FALSE]
    /\ propagated = [s \in Sessions |-> FALSE]
    /\ upc = "idle"
    /\ ucall = NoUnload
    /\ uitems = EmptyTrack
    /\ ui = 0
    /\ ukv = NoItem
    /\ ulive = FALSE
    /\ ulen = 0
    /\ load = NoLoad
    /\ lastOp = Op("none", "s1", "none", FALSE, NoRemote)
    /\ pre = EmptyDict
    /\ phase = "none"
    /\ projected = EmptyDict
    /\ injected = [s \in Sessions |-> EmptyDict]
    /\ partial = NoPartial
    /\ loads_run = 0
    /\ undone = 0
    /\ active = FALSE
    /\ called = [s \in Sessions |-> FALSE]
    /\ unloaded = [s \in Sessions |-> FALSE]

\* ---------------------------------------------------------------- get_flat_api
\* Mutant of Projectable: the exclusion list is not consulted.
ProjectableIgnoringExclusions(attr) == ~StartsWith(attr, DUNDER)

\* `not attr.startswith("__") and attr not in EXCLUDED_REMOTE_IMPORTS`
Projectable(attr) ==
    /\ ~StartsWith(attr, DUNDER)
    /\ ~InList(attr, EXCLUDED_REMOTE_IMPORTS)

\* Mutant of ListenerNeeded: no check for an existing listener.
ListenerNeededEveryCall(mode, listener) == mode

\* `if self.interactive_mode: if self.interactive_listener is None:`
ListenerNeeded(mode, listener) == mode /\ listener = "None"

\* Mutant of BindAndRecord: the binding is made but not recorded.
BindWithoutRecord(ns, attr, remote_attr) == DictSet(ns, attr, remote_attr)

\* The body of the for loop for one projectable attr: bind it in the namespace
\* and record it in the tracking dict held by the namespace.
BindAndRecord(ns, attr, remote_attr) ==
    LET bound == DictSet(ns, attr, remote_attr)
    IN DictSet(bound, GHIDRA_BRIDGE_NAMESPACE_TRACK,
               TrackSet(bound[GHIDRA_BRIDGE_NAMESPACE_TRACK], attr, remote_attr))

\* Mutant of load_attrs: when getattr raises, the record is reset and the
\* bindings made so far stay.
RECURSIVE load_attrs_reset_on_error(_, _, _, _)
load_attrs_reset_on_error(ns, rm, bad, i) ==
    IF i > Len(rm.attrs) THEN [ns |-> ns, err |-> "none"]
    ELSE LET attr == rm.attrs[i]
         IN IF Projectable(attr)
            THEN IF attr = bad
                 THEN [ns |-> DictSet(ns, GHIDRA_BRIDGE_NAMESPACE_TRACK, EmptyTrack),
                       err |-> "lookup"]
                 ELSE load_attrs_reset_on_error(BindAndRecord(ns, attr, rm.vals[attr]),
                                                rm, bad, i + 1)
            ELSE load_attrs_reset_on_error(ns, rm, bad, i + 1)

\* `for attr in remote_main._bridge_attrs:` from position i on.  getattr of the
\* member `bad` raises, which ends the loop and the call with what was bound
\* so far.
RECURSIVE load_attrs(_, _, _, _)
load_attrs(ns, rm, bad, i) ==
    IF i > Len(rm.attrs) THEN [ns |-> ns, err |-> "none"]
    ELSE LET attr == rm.attrs[i]
         IN IF Projectable(attr)
            THEN IF attr = bad
                 THEN [ns |-> ns, err |-> "lookup"]
                 ELSE load_attrs(BindAndRecord(ns, attr, rm.vals[attr]), rm, bad, i + 1)
            ELSE load_attrs(ns, rm, bad, i + 1)

\* Mutant of load_namespace: the load starts from an emptied namespace.
load_namespace_cleared(ns, rm, bad) ==
    load_attrs(DictSet(EmptyDict, GHIDRA_BRIDGE_NAMESPACE_TRACK, EmptyTrack), rm, bad, 1)

\* `if namespace is not None:` branch: a fresh tracking dict, then the loop.
load_namespace(ns, rm, bad) ==
    load_attrs(DictSet(ns, GHIDRA_BRIDGE_NAMESPACE_TRACK, EmptyTrack), rm, bad, 1)

\* get_flat_api as a function of what it reads: the new listener field, whether
\* addToolListener was called, the namespace afterwards, and the error raised.
get_flat_api_result(mode, listener, ns, scoped, rm, import_ok, bad) ==
    IF ~import_ok
    THEN [listener |-> listener, added |-> FALSE, ns |-> ns, err |-> "lookup", imported |-> FALSE]
    ELSE LET create == ListenerNeeded(mode, listener)
             loaded == IF scoped THEN load_namespace(ns, rm, bad)
                       ELSE [ns |-> ns, err |-> "none"]
         IN [listener |-> IF create THEN "obj" ELSE listener,
             added |-> create, ns |-> loaded.ns, err |-> loaded.err, imported |-> TRUE]

\* ---------------------------------------------------------------- unload_flat_api
\* Mutant of Unmodified: the value comparison is dropped.
PresentWhateverValue(ns, key, value) == key \in DOMAIN ns

\* `if key in namespace: if namespace[key] == value:`
Unmodified(ns, key, value) == key \in DOMAIN ns /\ ns[key] = value

\* `for key, value in namespace[GHIDRA_BRIDGE_NAMESPACE_TRACK].items():`
RECURSIVE unload_items(_, _, _)
unload_items(ns, items, i) ==
    IF i > Len(items) THEN ns
    ELSE unload_items(IF Unmodified(ns, items[i][1], items[i][2])
                      THEN DictDel(ns, items[i][1]) ELSE ns,
                      items, i + 1)

\* Mutant of unload_namespace: a missing tracking dict is passed over in silence.
unload_namespace_lenient(ns) ==
    IF GHIDRA_BRIDGE_NAMESPACE_TRACK \in DOMAIN ns
    THEN [ns |-> unload_items(ns, ns[GHIDRA_BRIDGE_NAMESPACE_TRACK], 1), err |-> "none"]
    ELSE [ns |-> ns, err |-> "none"]

\* unload_flat_api on a namespace: the namespace afterwards and the error raised.
unload_namespace(ns) ==
    IF GHIDRA_BRIDGE_NAMESPACE_TRACK \in DOMAIN ns
    THEN [ns |-> unload_items(ns, ns[GHIDRA_BRIDGE_NAMESPACE_TRACK], 1), err |-> "none"]
    ELSE [ns |-> ns, err |-> "not_projected"]

\* unload_flat_api(namespace=None) falls back on self.namespace and raises when
\* there is none.
unload_flat_api_result(ns, scoped, bound) ==
    IF ~scoped /\ ~bound
    THEN [ns |-> ns, err |-> "no_namespace"]
    ELSE unload_namespace(ns)

\* __exit__: unload only when the session was constructed with a namespace.
exit_result(ns, bound) ==
    IF bound THEN unload_namespace(ns) ELSE [ns |-> ns, err |-> "none"]

\* ---------------------------------------------------------------- bookkeeping
\* What the properties below compare the code against; none of it is read by
\* the operators above.

\* A name load must not project: an excluded one or a private one.
Reserved(n) ==
    \/ n \in {"logging", "subprocess", "ghidra_bridge", "bridge", "GhidraBridgeServer"}
    \/ (Len(Chars(n)) >= 2 /\ Chars(n)[1] = "_" /\ Chars(n)[2] = "_")

\* The binding of a name: its value, or 0 when the name is absent.
Binding(ns, n) == IF n \in DOMAIN ns THEN ns[n] ELSE 0

\* The position in _bridge_attrs at which a load whose member `bad` cannot be
\* resolved stops (one past the end: it does not stop).
StopIndex(rm, bad) ==
    IF \E i \in 1..Len(rm.attrs) : rm.attrs[i] = bad /\ ~Reserved(bad)
    THEN CHOOSE i \in 1..Len(rm.attrs) : rm.attrs[i] = bad
    ELSE Len(rm.attrs) + 1

\* The names a load resolves before it stops.
Resolved(rm, bad) ==
    {rm.attrs[i] : i \in {j \in 1..(StopIndex(rm, bad) - 1) : ~Reserved(rm.attrs[j])}}

Min(a, b) == IF a < b THEN a ELSE b

\* The scope holds nothing but the caller's own bindings.
OwnBindingsOnly == ~active /\ projected = EmptyDict

\* Dict d without the names in S.
Without(d, S) == [n \in (DOMAIN d) \ S |-> d[n]]

\* A get_flat_api call of session s wrote into the scope (it got past
\* remote_import).
NoteLoad(s, rm, bad, err) ==
    LET new == Resolved(rm, bad)
    IN /\ projected' = [n \in (DOMAIN projected) \cup new |->
                            IF n \in new THEN rm.vals[n] ELSE projected[n]]
       /\ injected' = [t \in Sessions |->
                          IF t = s
                          THEN [n \in (DOMAIN injected[s]) \cup new |->
                                   IF n \in new THEN rm.vals[n] ELSE injected[s][n]]
                          ELSE Without(injected[t], new)]
       /\ partial' = IF err = "none" THEN NoPartial
                     ELSE [bound |-> [n \in new |-> rm.vals[n]], phase |-> "aborted"]
       /\ pre' = IF err = "none" /\ OwnBindingsOnly
                 THEN [n \in new |-> Binding(namespace, n)] ELSE EmptyDict
       /\ phase' = IF err = "none" /\ OwnBindingsOnly THEN "loaded" ELSE "dirty"
       /\ loads_run' = IF err = "none" THEN Min(2, loads_run + 1) ELSE 0
       /\ undone' = 0
       /\ active' = TRUE
       /\ unloaded' = [t \in Sessions |-> FALSE]

\* An unload of the scope completed, leaving it as `after`.
NoteUnload(after) ==
    /\ projected' = [n \in {m \in DOMAIN projected : m \in DOMAIN after} |-> projected[n]]
    /\ injected' = [t \in Sessions |-> Without(injected[t], (DOMAIN injected[t]) \ DOMAIN after)]
    /\ partial' = IF partial.phase = "aborted"
                  THEN [bound |-> Without(partial.bound, (DOMAIN partial.bound) \ DOMAIN after),
                        phase |-> "unloaded"]
                  ELSE IF partial.phase = "loading"
                  THEN [partial EXCEPT !.bound = Without(@, (DOMAIN @) \ DOMAIN after)]
                  ELSE NoPartial
    /\ pre' = IF phase = "loaded" THEN pre ELSE EmptyDict
    /\ phase' = IF phase = "loaded" THEN "reversed" ELSE "dirty"
    /\ undone' = loads_run
    /\ loads_run' = 0
    /\ active' = FALSE

\* The operation left the scope alone.
NoteNothing ==
    /\ undone' = 0
    /\ UNCHANGED <<projected, injected, partial, pre, phase, loads_run, active, unloaded>>

\* A load that runs step by step replaced the tracking dict.
NoteLoadReset ==
    /\ active' = TRUE
    /\ unloaded' = [t \in Sessions |-> FALSE]
    /\ partial' = [bound |-> EmptyDict, phase |-> "loading"]
    /\ phase' = IF OwnBindingsOnly THEN "loading" ELSE "dirty"
    /\ pre' = EmptyDict
    /\ undone' = 0
    /\ UNCHANGED <<projected, injected, loads_run>>

\* A load of session s that runs step by step bound attr to val.
NoteLoadBind(s, attr, val) ==
    /\ projected' = DictSet(projected, attr, val)
    /\ injected' = [t \in Sessions |->
                       IF t = s THEN DictSet(injected[s], attr, val)
                       ELSE Without(injected[t], {attr})]
    /\ partial' = [partial EXCEPT !.bound = DictSet(@, attr, val)]
    /\ pre' = IF phase = "loading" THEN DictSet(pre, attr, Binding(namespace, attr)) ELSE pre
    /\ active' = TRUE
    /\ unloaded' = [t \in Sessions |-> FALSE]
    /\ undone' = 0
    /\ UNCHANGED <<phase, loads_run>>

\* A load that runs step by step wrote an item into the tracking dict.
NoteLoadRecord ==
    /\ active' = TRUE
    /\ unloaded' = [t \in Sessions |-> FALSE]
    /\ undone' = 0
    /\ UNCHANGED <<projected, injected, partial, pre, phase, loads_run>>

\* A load that runs step by step, and got as far as the tracking dict, ended.
NoteLoadReturn(err) ==
    /\ loads_run' = IF err = "none" THEN Min(2, loads_run + 1) ELSE 0
    /\ partial' = IF err = "none" THEN NoPartial ELSE [partial EXCEPT !.phase = "aborted"]
    /\ phase' = IF phase = "loading" THEN (IF err = "none" THEN "loaded" ELSE "dirty") ELSE phase
    /\ pre' = IF phase = "loading" /\ err = "none" THEN pre ELSE EmptyDict
    /\ undone' = 0
    /\ UNCHANGED <<projected, injected, active, unloaded>>

\* An unload that runs step by step deleted key.
NoteDelete(key) ==
    /\ projected' = Without(projected, {key})
    /\ injected' = [t \in Sessions |-> Without(injected[t], {key})]
    /\ partial' = [partial EXCEPT !.bound = Without(@, {key})]
    /\ phase' = IF phase = "loading" THEN "dirty" ELSE phase
    /\ undone' = 0
    /\ UNCHANGED <<pre, loads_run, active, unloaded>>

\* ---------------------------------------------------------------- actions
\* The state change of one get_flat_api call with result r.
ApplyGetFlatApi(s, r, scoped, rm, bad) ==
    /\ namespace' = r.ns
    /\ interactive_listener' = [interactive_listener EXCEPT ![s] = r.listener]
    /\ add_calls' = [add_calls EXCEPT ![s] = IF r.added THEN @ + 1 ELSE @]
    /\ tool_listeners' = IF r.added THEN tool_listeners \cup {s} ELSE tool_listeners
    /\ called' = [called EXCEPT ![s] = @ \/ r.imported]
    /\ UNCHANGED <<remove_calls, removals>>
    /\ IF scoped /\ r.imported THEN NoteLoad(s, rm, bad, r.err) ELSE NoteNothing

\* The calls below run to their end in one step: they start when no other
\* call is part-way.  The steps of a call that other threads interleave with
\* follow further down.
\*
\* GhidraBridge(namespace=<the scope>, interactive_mode=mode); server: neither
\* connect_to_host nor connect_to_port is None.  Without a server __init__
\* raises before it keeps the namespace; with one it calls get_flat_api on the
\* scope.  When __init__ raises, no session object is returned.
init_namespace(s, mode, server, rm, import_ok, bad) ==
    /\ constructed[s] = "none" /\ NoCallInFlight
    /\ interactive_mode' = [interactive_mode EXCEPT ![s] = mode]
    /\ handle' = [handle EXCEPT ![s] = "open"]
    /\ IF server
       THEN /\ LET r == get_flat_api_result(mode, "None", namespace, TRUE, rm, import_ok, bad)
               IN /\ ApplyGetFlatApi(s, r, TRUE, rm, bad)
                  /\ constructed' = [constructed EXCEPT ![s] =
                                         IF r.err = "none" THEN "open" ELSE "failed"]
                  /\ lastOp' = Op("init", s, r.err, TRUE, rm)
            /\ self_namespace' = [self_namespace EXCEPT ![s] = TRUE]
       ELSE /\ constructed' = [constructed EXCEPT ![s] = "failed"]
            /\ lastOp' = Op("init", s, "no_server", TRUE, NoRemote)
            /\ NoteNothing
            /\ UNCHANGED <<namespace, interactive_listener, self_namespace, tool_listeners,
                           add_calls, remove_calls, removals, called>>
    /\ UNCHANGED <<event_vars, unload_vars, load>>

\* GhidraBridge(namespace=None, interactive_mode=mode)
init_plain(s, mode) ==
    /\ constructed[s] = "none"
    /\ constructed' = [constructed EXCEPT ![s] = "open"]
    /\ interactive_mode' = [interactive_mode EXCEPT ![s] = mode]
    /\ lastOp' = Op("init", s, "none", FALSE, NoRemote)
    /\ NoteNothing
    /\ handle' = [handle EXCEPT ![s] = "open"]
    /\ UNCHANGED <<event_vars, unload_vars, load>>
    /\ UNCHANGED <<namespace, interactive_listener, self_namespace, tool_listeners,
                   add_calls, remove_calls, removals, called>>

\* b.get_flat_api(namespace=<the scope>) or b.get_flat_api()
get_flat_api(s, scoped, rm, import_ok, bad) ==
    /\ constructed[s] = "open" /\ NoCallInFlight
    /\ LET r == get_flat_api_result(interactive_mode[s], interactive_listener[s],
                                    namespace, scoped, rm, import_ok, bad)
       IN /\ ApplyGetFlatApi(s, r, scoped, rm, bad)
          /\ lastOp' = Op("get_flat_api", s, r.err, scoped, rm)
    /\ UNCHANGED <<constructed, interactive_mode, self_namespace, handle, event_vars, unload_vars, load>>

\* b.unload_flat_api(<the scope>) or b.unload_flat_api()
unload_flat_api(s, scoped) ==
    /\ constructed[s] = "open" /\ NoCallInFlight
    /\ LET r == unload_flat_api_result(namespace, scoped, self_namespace[s])
       IN /\ namespace' = r.ns
          /\ lastOp' = Op("unload_flat_api", s, r.err, scoped, NoRemote)
          /\ IF r.err = "none"
             THEN NoteUnload(r.ns) /\ unloaded' = [unloaded EXCEPT ![s] = TRUE]
             ELSE NoteNothing
    /\ UNCHANGED <<constructed, interactive_mode, interactive_listener, self_namespace,
                   tool_listeners, add_calls, remove_calls, removals, called, handle, event_vars, unload_vars, load>>

\* ---- the calls line by line, as they run while other threads run
\* b.unload_flat_api(<the scope>) or b.unload_flat_api(), one line at a time.
\* All steps leave the session's fields alone.
UnloadStepFrame ==
    UNCHANGED <<constructed, interactive_mode, interactive_listener, self_namespace,
                tool_listeners, add_calls, remove_calls, removals, called, handle, event_vars, load>>

\* The unload moves on to another of its lines.
UnloadGoto(pc) ==
    /\ upc' = pc
    /\ lastOp' = Op("unload_step", ucall.s, "none", TRUE, NoRemote)

\* unload_flat_api returns, or raises err; so does the __exit__ that called
\* it.
UnloadReturn(err) ==
    /\ upc' = "idle" /\ ucall' = NoUnload /\ uitems' = EmptyTrack /\ ui' = 0
    /\ ukv' = NoItem /\ ulive' = FALSE /\ ulen' = 0
    /\ lastOp' = Op(IF ucall.ctx = "exit" THEN "exit" ELSE "unload_flat_api",
                    ucall.s, err, ucall.scoped, NoRemote)
    /\ IF err = "none"
       THEN /\ NoteUnload(namespace')
            /\ unloaded' = IF ucall.ctx = "exit" THEN unloaded
                           ELSE [unloaded EXCEPT ![ucall.s] = TRUE]
       ELSE NoteNothing

\* Lines 102-108 of an unload_flat_api that `op` ("unload_flat_api" or "exit")
\* made on session s: the fallback on self.namespace and
\* `if GHIDRA_BRIDGE_NAMESPACE_TRACK in namespace:`.
UnloadEnter(s, scoped, op) ==
    /\ namespace' = namespace
    /\ IF (~scoped /\ ~self_namespace[s]) \/ GHIDRA_BRIDGE_NAMESPACE_TRACK \notin DOMAIN namespace
       THEN /\ lastOp' = Op(op, s,
                            IF ~scoped /\ ~self_namespace[s] THEN "no_namespace"
                            ELSE "not_projected", scoped, NoRemote)
            /\ UNCHANGED unload_vars
       ELSE /\ upc' = "items"
            /\ ucall' = [s |-> s, scoped |-> scoped,
                         ctx |-> IF op = "exit" THEN "exit" ELSE "call"]
            /\ lastOp' = Op("unload_step", s, "none", TRUE, NoRemote)
            /\ UNCHANGED <<uitems, ui, ukv, ulive, ulen>>
    /\ NoteNothing
    /\ UnloadStepFrame

\* b.unload_flat_api(<the scope>) or b.unload_flat_api() is entered.
unload_begin(s, scoped) ==
    /\ constructed[s] = "open" /\ upc = "idle"
    /\ UnloadEnter(s, scoped, "unload_flat_api")

\* __exit__ line by line: `if self.namespace is not None:` and its call of
\* unload_flat_api(self.namespace).
exit_begin(s) ==
    /\ constructed[s] = "open" /\ upc = "idle"
    /\ IF self_namespace[s]
       THEN UnloadEnter(s, TRUE, "exit")
       ELSE /\ namespace' = namespace
            /\ lastOp' = Op("exit", s, "none", FALSE, NoRemote)
            /\ NoteNothing
            /\ UNCHANGED unload_vars
            /\ UnloadStepFrame

\* `namespace[GHIDRA_BRIDGE_NAMESPACE_TRACK].items()`: the subscript raises
\* KeyError when the key has gone since the test of line 108; else the
\* iterator over the dict object found there.
unload_iter ==
    /\ upc = "items"
    /\ namespace' = namespace
    /\ IF GHIDRA_BRIDGE_NAMESPACE_TRACK \notin DOMAIN namespace
       THEN UnloadReturn("key_error")
       ELSE /\ UnloadGoto("next")
            /\ uitems' = namespace[GHIDRA_BRIDGE_NAMESPACE_TRACK]
            /\ ulen' = Len(namespace[GHIDRA_BRIDGE_NAMESPACE_TRACK])
            /\ ulive' = TRUE
            /\ NoteNothing
            /\ UNCHANGED <<ucall, ui, ukv>>
    /\ UnloadStepFrame

\* `for key, value in ...items():` asks the iterator for the next item.  The
\* iterator raises RuntimeError when the dict's size is no longer the one it
\* started with; at the end of the dict unload_flat_api returns.
unload_next ==
    /\ upc = "next"
    /\ namespace' = namespace
    /\ IF Len(uitems) # ulen
       THEN UnloadReturn("changed_size")
       ELSE IF ui >= Len(uitems)
       THEN UnloadReturn("none")
       ELSE /\ UnloadGoto("present")
            /\ ui' = ui + 1
            /\ ukv' = uitems[ui + 1]
            /\ NoteNothing
            /\ UNCHANGED <<ucall, uitems, ulive, ulen>>
    /\ UnloadStepFrame

\* `if key in namespace:`
unload_test_present ==
    /\ upc = "present"
    /\ namespace' = namespace
    /\ UnloadGoto(IF ukv[1] \in DOMAIN namespace THEN "equal" ELSE "next")
    /\ NoteNothing
    /\ UNCHANGED <<ucall, uitems, ui, ukv, ulive, ulen>>
    /\ UnloadStepFrame

\* `if namespace[key] == value:`
unload_test_equal ==
    /\ upc = "equal"
    /\ namespace' = namespace
    /\ IF ukv[1] \notin DOMAIN namespace
       THEN UnloadReturn("key_error")
       ELSE /\ UnloadGoto(IF namespace[ukv[1]] = ukv[2] THEN "delete" ELSE "next")
            /\ NoteNothing
            /\ UNCHANGED <<ucall, uitems, ui, ukv, ulive, ulen>>
    /\ UnloadStepFrame

\* `del namespace[key]`
unload_delete ==
    /\ upc = "delete"
    /\ IF ukv[1] \notin DOMAIN namespace
       THEN /\ namespace' = namespace
            /\ UnloadReturn("key_error")
       ELSE /\ namespace' = DictDel(namespace, ukv[1])
            /\ UnloadGoto("next")
            /\ NoteDelete(ukv[1])
            /\ UNCHANGED <<ucall, uitems, ui, ukv, ulive, ulen>>
    /\ UnloadStepFrame

\* GhidraBridge(namespace=<the scope>, ...) and get_flat_api, one line or one
\* wait for the remote side at a time.  One such call runs at a time.  All
\* steps leave these alone:
LoadStepFrame == UNCHANGED <<interactive_mode, self_namespace, handle, remove_calls, removals, event_vars,
                             upc, ucall, ui, ukv, ulen>>

\* The load moves on to another of its lines.
LoadGoto(pc) ==
    /\ load' = [load EXCEPT !.pc = pc]
    /\ constructed' = constructed
    /\ lastOp' = Op("load_step", load.s, "none", load.scoped, load.rm)

\* get_flat_api returns, or raises err; so does the __init__ that called it.
LoadReturn(err) ==
    /\ load' = NoLoad
    /\ constructed' = IF load.ctx = "init"
                      THEN [constructed EXCEPT ![load.s] = IF err = "none" THEN "open" ELSE "failed"]
                      ELSE constructed
    /\ lastOp' = Op(IF load.ctx = "init" THEN "init" ELSE "get_flat_api",
                    load.s, err, load.scoped, load.rm)

\* __init__ up to its call of get_flat_api (lines 27-40).
init_begin(s, mode, server) ==
    /\ constructed[s] = "none" /\ load.pc = "idle"
    /\ interactive_mode' = [interactive_mode EXCEPT ![s] = mode]
    /\ handle' = [handle EXCEPT ![s] = "open"]
    /\ IF server
       THEN /\ self_namespace' = [self_namespace EXCEPT ![s] = TRUE]
            /\ constructed' = [constructed EXCEPT ![s] = "building"]
            /\ load' = [NoLoad EXCEPT !.pc = "import", !.s = s, !.ctx = "init", !.scoped = TRUE]
            /\ lastOp' = Op("load_step", s, "none", TRUE, NoRemote)
       ELSE /\ constructed' = [constructed EXCEPT ![s] = "failed"]
            /\ lastOp' = Op("init", s, "no_server", TRUE, NoRemote)
            /\ UNCHANGED <<self_namespace, load>>
    /\ NoteNothing
    /\ UNCHANGED <<namespace, interactive_listener, tool_listeners, add_calls, remove_calls, removals,
                   called, event_vars, unload_vars>>

\* b.get_flat_api(namespace=<the scope>) or b.get_flat_api() is entered.
call_begin(s, scoped) ==
    /\ constructed[s] = "open" /\ load.pc = "idle"
    /\ load' = [NoLoad EXCEPT !.pc = "import", !.s = s, !.ctx = "call", !.scoped = scoped]
    /\ lastOp' = Op("load_step", s, "none", scoped, NoRemote)
    /\ NoteNothing
    /\ UNCHANGED <<namespace, constructed, interactive_listener, tool_listeners, add_calls,
                   called, uitems, ulive>>
    /\ LoadStepFrame

\* `remote_main = self.bridge.remote_import("__main__")`
load_import(rm, import_ok) ==
    /\ load.pc = "import"
    /\ IF import_ok
       THEN /\ load' = [load EXCEPT !.pc = "listener", !.rm = rm]
            /\ constructed' = constructed
            /\ lastOp' = Op("load_step", load.s, "none", load.scoped, rm)
            /\ called' = [called EXCEPT ![load.s] = TRUE]
       ELSE /\ LoadReturn("lookup")
            /\ called' = called
    /\ NoteNothing
    /\ UNCHANGED <<namespace, interactive_listener, tool_listeners, add_calls, uitems, ulive>>
    /\ LoadStepFrame

\* After the listener part: on to the namespace, or the call returns.
LoadAfterListener ==
    IF load.scoped THEN LoadGoto("reset") ELSE LoadReturn("none")

\* Lines 53-81: when a listener is needed, the remote class, the tool, and
\* InteractiveListener.__init__, which registers with the tool (line 65).
load_listener ==
    /\ load.pc = "listener"
    /\ IF ListenerNeeded(interactive_mode[load.s], interactive_listener[load.s])
       THEN /\ tool_listeners' = tool_listeners \cup {load.s}
            /\ add_calls' = [add_calls EXCEPT ![load.s] = @ + 1]
            /\ LoadGoto("keep")
       ELSE /\ LoadAfterListener
            /\ UNCHANGED <<tool_listeners, add_calls>>
    /\ NoteNothing
    /\ UNCHANGED <<namespace, interactive_listener, called, uitems, ulive>>
    /\ LoadStepFrame

\* `self.interactive_listener = InteractiveListener(tool)`: the assignment
load_keep ==
    /\ load.pc = "keep"
    /\ interactive_listener' = [interactive_listener EXCEPT ![load.s] = "obj"]
    /\ LoadAfterListener
    /\ NoteNothing
    /\ UNCHANGED <<namespace, tool_listeners, add_calls, called, uitems, ulive>>
    /\ LoadStepFrame

\* `namespace[GHIDRA_BRIDGE_NAMESPACE_TRACK] = dict()`: a new dict object; an
\* unload that iterates the old one keeps it.
load_reset ==
    /\ load.pc = "reset"
    /\ namespace' = DictSet(namespace, GHIDRA_BRIDGE_NAMESPACE_TRACK, EmptyTrack)
    /\ ulive' = FALSE
    /\ load' = [load EXCEPT !.pc = "loop", !.i = 1]
    /\ lastOp' = Op("load_step", load.s, "none", load.scoped, load.rm)
    /\ NoteLoadReset
    /\ UNCHANGED <<constructed, interactive_listener, tool_listeners, add_calls, called, uitems>>
    /\ LoadStepFrame

\* `for attr in remote_main._bridge_attrs:`, the filter, and
\* `remote_attr = getattr(remote_main, attr)`; ok: getattr returns.
load_getattr(ok) ==
    /\ load.pc = "loop"
    /\ IF load.i > Len(load.rm.attrs)
       THEN LoadReturn("none") /\ NoteLoadReturn("none")
       ELSE IF ~Projectable(load.rm.attrs[load.i])
       THEN /\ load' = [load EXCEPT !.i = @ + 1]
            /\ constructed' = constructed
            /\ lastOp' = Op("load_step", load.s, "none", load.scoped, load.rm)
            /\ NoteNothing
       ELSE IF ok
       THEN LoadGoto("bind") /\ NoteNothing
       ELSE LoadReturn("lookup") /\ NoteLoadReturn("lookup")
    /\ UNCHANGED <<namespace, interactive_listener, tool_listeners, add_calls, called,
                   uitems, ulive>>
    /\ LoadStepFrame

\* `namespace[attr] = remote_attr`
load_bind ==
    /\ load.pc = "bind"
    /\ LET attr == load.rm.attrs[load.i]
       IN /\ namespace' = DictSet(namespace, attr, load.rm.vals[attr])
          /\ NoteLoadBind(load.s, attr, load.rm.vals[attr])
    /\ LoadGoto("record")
    /\ UNCHANGED <<interactive_listener, tool_listeners, add_calls, called, uitems, ulive>>
    /\ LoadStepFrame

\* `namespace[GHIDRA_BRIDGE_NAMESPACE_TRACK][attr] = remote_attr`: the dict
\* object the scope holds now gets the item; it may be the one an unload
\* iterates.
load_record ==
    /\ load.pc = "record"
    /\ IF GHIDRA_BRIDGE_NAMESPACE_TRACK \notin DOMAIN namespace
       THEN /\ LoadReturn("key_error") /\ NoteLoadReturn("key_error")
            /\ UNCHANGED <<namespace, uitems>>
       ELSE LET attr == load.rm.attrs[load.i]
                track == TrackSet(namespace[GHIDRA_BRIDGE_NAMESPACE_TRACK], attr,
                                  load.rm.vals[attr])
            IN /\ namespace' = DictSet(namespace, GHIDRA_BRIDGE_NAMESPACE_TRACK, track)
               /\ uitems' = IF ulive THEN track ELSE uitems
               /\ load' = [load EXCEPT !.pc = "loop", !.i = @ + 1]
               /\ constructed' = constructed
               /\ lastOp' = Op("load_step", load.s, "none", load.scoped, load.rm)
               /\ NoteLoadRecord
    /\ UNCHANGED <<interactive_listener, tool_listeners, add_calls, called, ulive>>
    /\ LoadStepFrame

\* Leaving `with GhidraBridge(...) as b:`
exit(s) ==
    /\ constructed[s] = "open" /\ NoCallInFlight
    /\ LET r == exit_result(namespace, self_namespace[s])
       IN /\ namespace' = r.ns
          /\ lastOp' = Op("exit", s, r.err, self_namespace[s], NoRemote)
          /\ IF r.err = "none" /\ self_namespace[s]
             THEN NoteUnload(r.ns) /\ unloaded' = unloaded
             ELSE NoteNothing
    /\ UNCHANGED <<constructed, interactive_mode, interactive_listener, self_namespace,
                   tool_listeners, add_calls, remove_calls, removals, called, handle, event_vars, unload_vars, load>>

\* What one remote removeToolListener call through a transport handle in state
\* h can come to: ok, the call returns; removed, it reached the tool, which no
\* longer has the listener.  Through a released handle it raises and reaches
\* nothing; through an open one it returns, or the transport's error comes up
\* before or after the tool acted.
RemoveOutcomes(h) ==
    IF h = "open"
    THEN {[ok |-> TRUE, removed |-> TRUE], [ok |-> FALSE, removed |-> TRUE],
          [ok |-> FALSE, removed |-> FALSE]}
    ELSE {[ok |-> FALSE, removed |-> FALSE]}
Outcomes == [ok : BOOLEAN, removed : BOOLEAN]

\* InteractiveListener.__del__, called by hand or by the collector: it makes
\* the remote call whatever happened before and lets its exception through.
\* Inside __init__ the listener is referenced and out of the caller's reach.
listener_del(s, o) ==
    /\ interactive_listener[s] = "obj" /\ constructed[s] # "building"
    /\ remove_calls[s] < MaxDel
    /\ o \in RemoveOutcomes(handle[s])
    /\ remove_calls' = [remove_calls EXCEPT ![s] = @ + 1]
    /\ removals' = [removals EXCEPT ![s] = IF o.removed /\ s \in tool_listeners THEN @ + 1 ELSE @]
    /\ tool_listeners' = IF o.removed THEN tool_listeners \ {s} ELSE tool_listeners
    /\ lastOp' = Op("del", s, IF o.ok THEN "none" ELSE "connection", FALSE, NoRemote)
    /\ NoteNothing
    /\ UNCHANGED <<namespace, constructed, interactive_mode, interactive_listener,
                   self_namespace, add_calls, called, handle, event_vars, unload_vars, load>>

\* The last reference to the session object goes (del b, the end of the
\* caller's function, or __init__ raised), and the interpreter releases
\* self.bridge.  Nothing in the class orders this against the listener's
\* __del__, and nothing asks that __exit__ ran before.  A call that runs on
\* the session holds a reference to it.
release_transport(s) ==
    /\ handle[s] = "open"
    /\ constructed[s] \in {"open", "failed"}
    /\ load.s # s /\ ucall.s # s
    /\ handle' = [handle EXCEPT ![s] = "released"]
    /\ constructed' = [constructed EXCEPT ![s] = IF @ = "open" THEN "closed" ELSE @]
    /\ lastOp' = Op("release", s, "none", FALSE, NoRemote)
    /\ NoteNothing
    /\ UNCHANGED <<namespace, interactive_mode, interactive_listener, self_namespace,
                   tool_listeners, add_calls, remove_calls, removals, called, event_vars, unload_vars, load>>

\* The remote tool sends an event to a listener registered with it, which
\* runs InteractiveListener.processToolEvent; ok: both prints return.
processToolEvent(s, ok) ==
    /\ s \in tool_listeners
    /\ events[s] < MaxEvents
    /\ events' = [events EXCEPT ![s] = @ + 1]
    /\ late' = [late EXCEPT ![s] = @ \/ handle[s] = "released"]
    /\ propagated' = [propagated EXCEPT ![s] = @ \/ ~ok]
    /\ lastOp' = Op("event", s, IF ok THEN "none" ELSE "handler", FALSE, NoRemote)
    /\ NoteNothing
    /\ UNCHANGED <<namespace, constructed, interactive_mode, interactive_listener,
                   self_namespace, tool_listeners, add_calls, remove_calls, removals, called, handle,
                   unload_vars, load>>

\* The caller's own deletion in the scope: del S[n]
unbind(n) ==
    /\ n \in DOMAIN namespace
    /\ namespace' = DictDel(namespace, n)
    /\ lastOp' = Op("unbind", "s1", "none", TRUE, NoRemote)
    /\ projected' = [m \in (DOMAIN projected) \ {n} |-> projected[m]]
    /\ injected' = [t \in Sessions |-> Without(injected[t], {n})]
    /\ partial' = [partial EXCEPT !.bound = Without(@, {n})]
    /\ phase' = IF phase \in {"loading", "loaded", "reversed"} THEN "dirty" ELSE phase
    /\ pre' = EmptyDict
    /\ undone' = 0
    /\ UNCHANGED <<loads_run, active, unloaded>>
    /\ ulive' = (ulive /\ n # GHIDRA_BRIDGE_NAMESPACE_TRACK)
    /\ UNCHANGED <<constructed, interactive_mode, interactive_listener, self_namespace,
                   tool_listeners, add_calls, remove_calls, removals, called, handle, event_vars,
                   upc, ucall, uitems, ui, ukv, ulen, load>>

\* The caller's own assignment in the scope: n = v
rebind(n, v) ==
    /\ namespace' = DictSet(namespace, n, v)
    /\ ulive' = (ulive /\ n # GHIDRA_BRIDGE_NAMESPACE_TRACK)
    /\ lastOp' = Op("rebind", "s1", "none", TRUE, NoRemote)
    /\ projected' = [m \in (DOMAIN projected) \ {n} |-> projected[m]]
    /\ injected' = [t \in Sessions |-> Without(injected[t], {n})]
    /\ partial' = [partial EXCEPT !.bound = Without(@, {n})]
    /\ phase' = IF phase \in {"loading", "loaded", "reversed"} THEN "dirty" ELSE phase
    /\ pre' = EmptyDict
    /\ undone' = 0
    /\ UNCHANGED <<loads_run, active, unloaded>>
    /\ UNCHANGED <<constructed, interactive_mode, interactive_listener, self_namespace,
                   tool_listeners, add_calls, remove_calls, removals, called, handle, event_vars,
                   upc, ucall, uitems, ui, ukv, ulen, load>>

\* One session, opened with interactive_mode=False, and its caller.  The
\* session may be given no server and remote_import may fail; every member of
\* the remote __main__ resolves.
Next ==
    \/ \E rm \in RemoteMains : init_namespace("s1", FALSE, TRUE, rm, TRUE, NoName)
    \/ init_namespace("s1", FALSE, TRUE, NoRemote, FALSE, NoName)
    \/ init_namespace("s1", FALSE, FALSE, NoRemote, TRUE, NoName)
    \/ init_plain("s1", FALSE)
    \/ \E rm \in RemoteMains : get_flat_api("s1", TRUE, rm, TRUE, NoName)
    \/ \E scoped \in BOOLEAN, import_ok \in BOOLEAN : get_flat_api("s1", scoped, NoRemote, import_ok, NoName)
    \/ \E scoped \in BOOLEAN : unload_flat_api("s1", scoped)
    \/ exit("s1")
    \/ \E n \in CallerNames, v \in Values : rebind(n, v)

Spec == Init /\ [][Next]_vars

\* Two sessions in either mode and their listeners; the remote __main__ has no
\* members.
NextListener ==
    \/ \E s \in Sessions, mode \in BOOLEAN, import_ok \in BOOLEAN :
          init_namespace(s, mode, TRUE, NoRemote, import_ok, NoName)
    \/ \E s \in Sessions, mode \in BOOLEAN :
          init_namespace(s, mode, FALSE, NoRemote, TRUE, NoName)
    \/ \E s \in Sessions, mode \in BOOLEAN : init_plain(s, mode)
    \/ \E s \in Sessions, scoped \in BOOLEAN, import_ok \in BOOLEAN :
          get_flat_api(s, scoped, NoRemote, import_ok, NoName)
    \/ \E s \in Sessions : exit(s)
    \/ \E s \in Sessions, o \in Outcomes : listener_del(s, o)

SpecListener == Init /\ [][NextListener]_vars

\* The remote __main__s of SpecRace: ordinary members only.
RaceMains == {rm \in PublicMains : Range(rm.attrs) \subseteq Ordinary /\ ("bar" \in Range(rm.attrs) => rm.vals["bar"] = 1)}

\* The remote __main__s of SpecTeardown: no member, or one.
TeardownMains == {rm \in RaceMains : rm.attrs \in {<<>>, <<"foo">>} /\ \A n \in Range(rm.attrs) : rm.vals[n] = 1}

\* One session in either mode from its construction to the release of its
\* transport handle.  Its construction on the scope, its get_flat_api, its
\* unload_flat_api and its __exit__ run line by line; the remote tool's events,
\* the listener's __del__, the release of the handle and a deletion of the
\* tracking key come between those lines.
NextTeardown ==
    \/ \E mode \in BOOLEAN, server \in BOOLEAN : init_begin("s1", mode, server)
    \/ \E mode \in BOOLEAN : init_plain("s1", mode)
    \/ \E scoped \in BOOLEAN : call_begin("s1", scoped)
    \/ \E rm \in TeardownMains : load_import(rm, TRUE)
    \/ load_import(NoRemote, FALSE)
    \/ load_listener
    \/ load_keep
    \/ load_reset
    \/ \E ok \in BOOLEAN : load_getattr(ok)
    \/ load_bind
    \/ load_record
    \/ \E scoped \in BOOLEAN : unload_begin("s1", scoped)
    \/ exit_begin("s1")
    \/ unload_iter
    \/ unload_next
    \/ unload_test_present
    \/ unload_test_equal
    \/ unload_delete
    \/ unbind(GHIDRA_BRIDGE_NAMESPACE_TRACK)
    \/ \E o \in Outcomes : listener_del("s1", o)
    \/ release_transport("s1")
    \/ \E ok \in BOOLEAN : processToolEvent("s1", ok)

SpecTeardown == Init /\ [][NextTeardown]_vars

\* Two sessions constructed on the same scope, and the caller.
NextShared ==
    \/ \E s \in Sessions, rm \in RemoteMains : init_namespace(s, FALSE, TRUE, rm, TRUE, NoName)
    \/ \E s \in Sessions : unload_flat_api(s, FALSE)
    \/ \E s \in Sessions : exit(s)
    \/ \E n \in CallerNames, v \in Values : rebind(n, v)

SpecShared == Init /\ [][NextShared]_vars

\* One session constructed on the scope, whose loads may fail: in
\* remote_import, or in the getattr of one member.  The remote __main__ has
\* ordinary and excluded members.
NextFailure ==
    \/ \E rm \in PublicMains : \E bad \in BadNames(rm) : init_namespace("s1", FALSE, TRUE, rm, TRUE, bad)
    \/ \E rm \in PublicMains : \E bad \in BadNames(rm) : get_flat_api("s1", TRUE, rm, TRUE, bad)
    \/ get_flat_api("s1", TRUE, NoRemote, FALSE, NoName)
    \/ unload_flat_api("s1", TRUE)
    \/ exit("s1")
    \/ \E n \in OwnNames, v \in Values : rebind(n, v)

SpecFailure == Init /\ [][NextFailure]_vars

\* Three threads on one scope.  One constructs session s1 on the scope and
\* calls its get_flat_api, line by line; one runs unload_flat_api of s1 or of
\* s2, a session opened without a namespace, line by line; one rebinds names.
NextRace ==
    \/ \E server \in BOOLEAN : init_begin("s1", TRUE, server)
    \/ init_plain("s2", FALSE)
    \/ call_begin("s1", TRUE)
    \/ \E rm \in RaceMains : load_import(rm, TRUE)
    \/ load_import(NoRemote, FALSE)
    \/ load_listener
    \/ load_keep
    \/ load_reset
    \/ \E ok \in BOOLEAN : load_getattr(ok)
    \/ load_bind
    \/ load_record
    \/ \E s \in Sessions : unload_begin(s, TRUE)
    \/ unload_iter
    \/ unload_next
    \/ unload_test_present
    \/ unload_test_equal
    \/ unload_delete
    \/ \E v \in Values : rebind("foo", v)

SpecRace == Init /\ [][NextRace]_vars

\* ---------------------------------------------------------------- properties
TRACK == GHIDRA_BRIDGE_NAMESPACE_TRACK

\* The step just taken was a get_flat_api into the scope (by hand or from
\* __init__); lastOp.rm is the remote __main__ it read.
LoadedInto(op) == op.op \in {"init", "get_flat_api"} /\ op.scoped /\ op.err # "no_server"
\* The step just taken was an unload of the scope that returned normally.
Unloaded(op) ==
    /\ op.err = "none"
    /\ \/ op.op = "unload_flat_api"
       \/ op.op = "exit" /\ op.scoped

\* The members of a remote __main__ that a load projects, in order.
NotReserved(n) == ~Reserved(n)
ProjectedAttrs(rm) == SelectSeq(rm.attrs, NotReserved)

\* C1. Non-clobbering: an unload removes exactly the names whose current value
\* equals the recorded one; a name the caller rebound to another value (and any
\* name that is not in the record) keeps the caller's value.
C1_NonClobbering ==
    [][Unloaded(lastOp') =>
        LET track == namespace[TRACK]
        IN \A n \in (DOMAIN namespace) \ {TRACK} :
              IF n \in TrackKeys(track) /\ namespace[n] = TrackGet(track, n)
              THEN n \notin DOMAIN namespace'
              ELSE n \in DOMAIN namespace' /\ namespace'[n] = namespace[n]]_vars

\* An unload has returned and a recorded name is still bound, to a value that
\* is not the recorded one, while another recorded name is gone.
C1_Witness ==
    /\ lastOp.op = "unload_flat_api" /\ lastOp.err = "none"
    /\ \E n, m \in TrackKeys(namespace[TRACK]) :
          /\ n \in DOMAIN namespace /\ namespace[n] # TrackGet(namespace[TRACK], n)
          /\ m \notin DOMAIN namespace

\* C2. Projection symmetry: after a load into a scope that holds the caller's
\* own bindings and then an unload, with nothing in between, every name the
\* load projected has the binding it had before the load (same value, or
\* absent).
C2_ProjectionSymmetry ==
    phase = "reversed" => \A n \in DOMAIN pre : Binding(namespace, n) = pre[n]

\* C3. Sentinel invariant: the tracking key is in the scope exactly while a
\* projection is active there (a load wrote into it and no unload has
\* completed since).
C3_SentinelWhileActive ==
    (TRACK \in DOMAIN namespace) <=> active

\* C4. An unload of a scope that holds no tracking key raises the
\* not-projected error and leaves the scope as it was.
C4_UnloadWithoutRecord ==
    [][(/\ lastOp'.op = "unload_flat_api"
        /\ lastOp'.scoped \/ self_namespace[lastOp'.s]
        /\ TRACK \notin DOMAIN namespace)
       => (lastOp'.err = "not_projected" /\ namespace' = namespace)]_vars

\* An unload has raised the not-projected error on a scope that holds bindings
\* of the caller.
C4_Witness ==
    /\ lastOp.op = "unload_flat_api" /\ lastOp.err = "not_projected"
    /\ DOMAIN namespace # {}

\* C5. Load postcondition: when a load has returned, every exposed name that is
\* neither private nor excluded is bound to its resolved value, and the record
\* holds exactly those names, in the order exposed, each with the value bound.
C5_LoadPostcondition ==
    (LoadedInto(lastOp) /\ lastOp.err = "none") =>
        LET rm == lastOp.rm
            names == {n \in Range(rm.attrs) : ~Reserved(n)}
        IN /\ \A n \in names : n \in DOMAIN namespace /\ namespace[n] = rm.vals[n]
           /\ TRACK \in DOMAIN namespace
           /\ TrackKeys(namespace[TRACK]) = names
           /\ \A n \in names : TrackGet(namespace[TRACK], n) = namespace[n]
           /\ [i \in 1..Len(namespace[TRACK]) |-> namespace[TRACK][i][1]] = ProjectedAttrs(rm)

\* A load of a remote __main__ with two projectable members has returned.
C5_Witness ==
    /\ LoadedInto(lastOp) /\ lastOp.err = "none"
    /\ Len(ProjectedAttrs(lastOp.rm)) = 2

\* C6. Re-load overwrite: after a second load with no unload in between the
\* record holds the second load's bindings only, and the unload that follows
\* leaves no binding that either load made and the caller did not touch.
C6_ReloadOverwrite ==
    /\ (LoadedInto(lastOp) /\ lastOp.err = "none" /\ loads_run = 2) =>
          /\ TrackKeys(namespace[TRACK]) = Range(ProjectedAttrs(lastOp.rm))
          /\ \A n \in TrackKeys(namespace[TRACK]) :
                TrackGet(namespace[TRACK], n) = lastOp.rm.vals[n]
    /\ (Unloaded(lastOp) /\ undone = 2) => projected = EmptyDict

\* C7. Load never projects a reserved name: a load leaves the binding of every
\* exposed excluded or private name as it was and records none of them; the
\* tracking key holds the load's own record (only projected names, each with
\* its resolved value) also when the remote exposes a member of that name.
C7_ReservedNeverProjected ==
    [][LoadedInto(lastOp') =>
        LET rm == lastOp'.rm
        IN \A n \in {a \in Range(rm.attrs) : Reserved(a)} :
              /\ n # TRACK => Binding(namespace', n) = Binding(namespace, n)
              /\ TRACK \in DOMAIN namespace'
              /\ n \notin TrackKeys(namespace'[TRACK])
              /\ \A i \in 1..Len(namespace'[TRACK]) :
                    /\ namespace'[TRACK][i][1] \in Range(ProjectedAttrs(rm))
                    /\ namespace'[TRACK][i][2] = rm.vals[namespace'[TRACK][i][1]]]_vars

\* A load has returned whose remote __main__ exposed an excluded member and a
\* member named like the tracking key, into a scope where the caller has bound
\* the excluded name.
C7_Witness ==
    /\ LoadedInto(lastOp) /\ lastOp.err = "none"
    /\ {"logging", TRACK} \subseteq Range(lastOp.rm.attrs)
    /\ "logging" \in DOMAIN namespace

C9_TeardownIdempotent ==
    [][/\ \A s \in Sessions : removals'[s] <= 1
       /\ \A s \in Sessions :
             (lastOp'.op = "del" /\ lastOp'.s = s /\ remove_calls'[s] = remove_calls[s] + 1
                /\ removals[s] >= 1)
             => lastOp'.err = "none"]_vars

\* C10. Scoped exit after a manual unload: when a session constructed with a
\* namespace leaves its with-block after the caller's own unload, __exit__
\* raises nothing and no binding made by a load and untouched by the caller is
\* left in the scope.
C10_ExitAfterManualUnload ==
    (lastOp.op = "exit" /\ self_namespace[lastOp.s] /\ unloaded[lastOp.s]) =>
        (lastOp.err = "none" /\ projected = EmptyDict)

\* C11. Listener on open: once the construction of an interactive session has
\* returned, the session has a listener and has issued exactly one
\* addToolListener call, whether or not a namespace was passed.
C11_ListenerOnOpen ==
    (lastOp.op = "init" /\ lastOp.err = "none" /\ interactive_mode[lastOp.s]) =>
        (interactive_listener[lastOp.s] = "obj" /\ add_calls[lastOp.s] = 1)

\* C12. Teardown ordering: when the transport handle of a session has been
\* released, its listener has been removed from the remote tool before, and
\* no event is sent to the listener after the release.
C12_TeardownOrdering ==
    \A s \in Sessions :
        /\ handle[s] = "released" => s \notin tool_listeners
        /\ ~late[s]

\* C15. Best-effort close: when __exit__ of a session with a listener ends in
\* the error of its unload, the listener has been removed from the remote tool
\* and the transport handle has been released.
C15_BestEffortClose ==
    (/\ lastOp.op = "exit" /\ lastOp.err # "none"
     /\ interactive_listener[lastOp.s] = "obj") =>
        (lastOp.s \notin tool_listeners /\ handle[lastOp.s] = "released")

\* C16. Event-delivery isolation: no failure of processToolEvent leaves the
\* handler, and the events after a failure are still delivered.
C16_HandlerFailureContained ==
    \A s \in Sessions : ~propagated[s]

\* C13. Session isolation: an unload by one session removes every binding that
\* session's loads made (and nothing has touched since) and leaves every
\* binding made by the loads of another session as it is.
C13_SessionIsolation ==
    [][Unloaded(lastOp') =>
        /\ \A n \in DOMAIN injected[lastOp'.s] : n \notin DOMAIN namespace'
        /\ \A t \in Sessions \ {lastOp'.s} : \A n \in DOMAIN injected[t] :
              Binding(namespace', n) = injected[t][n]]_vars

\* C14. A load that fails with a lookup error, in remote_import or in the
\* getattr of a member, leaves a projection that is active in the scope as it
\* was: the bindings loads made there and the record under the tracking key.
C14_FailedLoadKeepsProjection ==
    [][(LoadedInto(lastOp') /\ lastOp'.err = "lookup" /\ active) =>
        /\ TRACK \in DOMAIN namespace' /\ namespace'[TRACK] = namespace[TRACK]
        /\ \A n \in DOMAIN projected : Binding(namespace', n) = projected[n]]_vars

\* C18. Frame of load and unload: a load changes no binding but those of the
\* names it projects and the tracking key, and an unload changes no binding
\* but those of the names projected by the load it reverses (the recorded
\* ones); so a name of the caller's that no load projects keeps its value
\* through every sequence of loads and unloads.
C18_Frame ==
    [][(LoadedInto(lastOp') \/ lastOp'.op \in {"unload_flat_api", "exit"}) =>
        LET touched == IF LoadedInto(lastOp') THEN Range(ProjectedAttrs(lastOp'.rm))
                       ELSE IF TRACK \in DOMAIN namespace THEN TrackKeys(namespace[TRACK])
                       ELSE {}
        IN \A n \in (DOMAIN namespace) \ (touched \cup {TRACK}) :
              n \in DOMAIN namespace' /\ namespace'[n] = namespace[n]]_vars

\* An unload has removed a projected name from a scope in which the caller's
\* own x is bound.
C18_Witness ==
    /\ lastOp.op = "unload_flat_api" /\ lastOp.err = "none"
    /\ "x" \in DOMAIN namespace
    /\ \E n \in TrackKeys(namespace[TRACK]) : n \notin DOMAIN namespace

\* C19. Partial-load consistency: once a load has aborted, every name it has
\* bound (and the caller has left alone) is in the record with the value
\* bound; and the unload that follows leaves none of these bindings.
C19_PartialLoadConsistency ==
    /\ partial.phase = "aborted" =>
          \A n \in DOMAIN partial.bound :
              /\ n \in TrackKeys(namespace[TRACK])
              /\ TrackGet(namespace[TRACK], n) = partial.bound[n]
              /\ Binding(namespace, n) = partial.bound[n]
    /\ partial.phase = "unloaded" => partial.bound = EmptyDict

\* An unload has followed a load that aborted after it had bound a name.
C19_Witness ==
    /\ Unloaded(lastOp)
    /\ partial.phase = "unloaded"
    /\ Len(namespace[TRACK]) >= 1

\* C17. Unload is atomic with respect to concurrent writes: whenever unload
\* deletes a name, the value the name is bound to at that moment is the
\* recorded one; a value another thread has bound since the comparison is not
\* deleted.
C17_UnloadAtomic ==
    [][(upc = "delete" /\ upc' # "delete") =>
        (ukv[1] \in DOMAIN namespace /\ namespace[ukv[1]] = ukv[2])]_vars

====
